---- MODULE Spec2Model ----
(***************************************************************************)
(* A model of scintools/ththmod.py: the theta-theta mapping routines       *)
(* (thth_map, thth_redmap, rev_map, Eval_calc), the arc-length edge        *)
(* builder (arc_edges) and the curvature search (single_search).           *)
(*                                                                         *)
(* Numbers.  theta, fd and tau are carried as exact integers in a unit     *)
(* fine enough that every halving and every mean the code takes is exact   *)
(* on the inputs of the model (theta and fd in 1/24 of their unit, tau in  *)
(* 1/576 of its unit, so that eta keeps its value).  A complex array       *)
(* element is a record (re + i*im) * sqrt(num/den), which carries the flux *)
(* factor sqrt(|2 eta (th2 - th1)|) exactly; k tells a number from NaN,    *)
(* from an infinity and from a sum of unlike radicals.  arc_edges works on *)
(* reals throughout and is modelled in fixed point.                        *)
(***************************************************************************)
EXTENDS Integers, Sequences, FiniteSets, TLC

VARIABLES m, s, a
vars == <<m, s, a>>

(***************************************************************************)
(* Bounds of the model.                                                    *)
(***************************************************************************)
NAxis == 4       \* the tau and fd axes have NAxis-1 or NAxis samples
MaxN == 6        \* arc_edges is asked for 1..MaxN edges
Scale == 100     \* fixed point of arc_edges: a real r is the integer r * Scale
Quad == 8        \* number of midpoint-rule panels for arcsinh

(***************************************************************************)
(* Scalar helpers.                                                         *)
(***************************************************************************)
AbsV(x) == IF x < 0 THEN -x ELSE x

RECURSIVE GCD(_, _)
GCD(p, q) == IF q = 0 THEN p ELSE GCD(q, p % q)

\* Python's // on integers: floor division
FloorDiv(p, q) == p \div q

SeqMax(q) == CHOOSE v \in {q[k] : k \in DOMAIN q} : \A k \in DOMAIN q : q[k] <= v

\* np.diff(q).mean(): the sum of the differences telescopes
DiffMean(q) == (q[Len(q)] - q[1]) \div (Len(q) - 1)

(***************************************************************************)
(* Complex array elements.                                                 *)
(***************************************************************************)
Val(k, re, im, num, den) == [k |-> k, re |-> re, im |-> im, num |-> num, den |-> den]
Zero == Val("num", 0, 0, 1, 1)
NaN == Val("nan", 0, 0, 1, 1)
Inf == Val("inf", 0, 0, 1, 1)
Irr == Val("irr", 0, 0, 1, 1)
Big == Val("big", 0, 0, 1, 1)
Cx(re, im) == Val("num", re, im, 1, 1)

Mk(re, im, num, den) ==
    IF (re = 0 /\ im = 0) \/ num = 0 THEN Zero
    ELSE LET g == GCD(num, den) IN Val("num", re, im, num \div g, den \div g)

ConjV(v) == IF v.k = "num" THEN Mk(v.re, -v.im, v.num, v.den) ELSE v
NegV(v) == IF v.k = "num" THEN Mk(-v.re, -v.im, v.num, v.den) ELSE v

\* v * sqrt(r)
MulSqrt(v, r) ==
    IF v.k = "num" THEN Mk(v.re, v.im, v.num * r, v.den)
    ELSE IF r = 0 THEN NaN ELSE v

\* v / sqrt(r): 0/0 is NaN, x/0 is an infinity
DivSqrt(v, r) ==
    IF v.k = "num"
    THEN IF r = 0 THEN (IF v = Zero THEN NaN ELSE Inf)
         ELSE Mk(v.re, v.im, v.num, v.den * r)
    ELSE v

AddV(v, w) ==
    IF v.k = "nan" \/ w.k = "nan" THEN NaN
    ELSE IF v.k \in {"inf", "big"} \/ w.k \in {"inf", "big"} THEN Inf
    ELSE IF v.k = "irr" \/ w.k = "irr" THEN Irr
    ELSE IF v = Zero THEN w
    ELSE IF w = Zero THEN v
    ELSE IF v.num = w.num /\ v.den = w.den
         THEN Mk(v.re + w.re, v.im + w.im, v.num, v.den)
         ELSE Irr

SubV(v, w) ==
    IF v.k = "inf" /\ w.k = "inf" THEN NaN ELSE AddV(v, NegV(w))

\* np.nan_to_num: NaN becomes 0, an infinity the largest finite number
NanToNum(v) ==
    IF v.k = "nan" THEN Zero ELSE IF v.k = "inf" THEN Big ELSE v

(***************************************************************************)
(* Bin centers (thth_map 43-45, thth_redmap 96-97, rev_map 123-125,        *)
(* G_revmap 192-193).  The boolean-mask selection picks every midpoint of  *)
(* least absolute value; the in-place subtraction broadcasts it, which     *)
(* numpy allows only for a selection of one element or of as many as the   *)
(* array has.                                                              *)
(***************************************************************************)
Mids(e) == [k \in 1..(Len(e) - 1) |-> (e[k + 1] + e[k]) \div 2]

MinAbs(c) ==
    CHOOSE v \in {AbsV(c[k]) : k \in DOMAIN c} : \A k \in DOMAIN c : v <= AbsV(c[k])

IsNearest(c, x) == AbsV(x) = MinAbs(c)

bin_centers(e) ==
    LET c == Mids(e) IN
    IF Len(c) = 0 THEN [ok |-> FALSE, c |-> <<>>]
    ELSE LET sel == SelectSeq(c, LAMBDA x : IsNearest(c, x)) IN
         IF Len(sel) = 1
         THEN [ok |-> TRUE, c |-> [k \in DOMAIN c |-> c[k] - sel[1]]]
         ELSE IF Len(sel) = Len(c)
         THEN [ok |-> TRUE, c |-> [k \in DOMAIN c |-> c[k] - sel[k]]]
         ELSE [ok |-> FALSE, c |-> <<>>]

(***************************************************************************)
(* thth_map (32-76).                                                       *)
(***************************************************************************)
\* index of the SS bin a theta pair maps back to (55-57); 0-based as in the code
tau_inv(c, tau, eta, i, j) ==
    FloorDiv(eta * (c[j] * c[j] - c[i] * c[i]) - tau[1] + DiffMean(tau) \div 2,
             DiffMean(tau))

fd_inv(c, fd, i, j) ==
    FloorDiv((c[j] - c[i]) - fd[1] + DiffMean(fd) \div 2, DiffMean(fd))

\* the mask of line 63
pnts(c, tau, fd, eta, i, j) ==
    /\ tau_inv(c, tau, eta, i, j) > 0
    /\ tau_inv(c, tau, eta, i, j) < Len(tau)
    /\ fd_inv(c, fd, i, j) < Len(fd)

\* numpy's integer indexing: a negative index counts from the end, and one
\* below -n raises IndexError
IndexOk(idx, n) == idx >= -n /\ idx < n
PyIndex(idx, n) == IF idx < 0 THEN idx + n ELSE idx

\* line 64: the fancy-indexed read of SS for the masked pairs
Fill(SS, c, tau, fd, eta, i, j) ==
    IF pnts(c, tau, fd, eta, i, j)
    THEN SS[tau_inv(c, tau, eta, i, j) + 1][PyIndex(fd_inv(c, fd, i, j), Len(fd)) + 1]
    ELSE Zero

\* line 67: the flux factor sqrt(|2 eta (th2 - th1)|), as its radicand
FluxRad(c, eta, i, j) == AbsV(2 * eta * (c[i] - c[j]))

\* line 70: thth -= np.tril(thth)
DropLower(T, i, j) == SubV(T[i][j], IF j <= i THEN T[i][j] ELSE Zero)

\* line 71: thth += np.conjugate(np.triu(thth).T)
AddConjUpper(T, i, j) == AddV(T[i][j], IF i >= j THEN ConjV(T[j][i]) ELSE Zero)

\* line 72: thth -= np.diag(np.diag(thth))
DropDiag(T, i, j) == SubV(T[i][j], IF i = j THEN T[i][j] ELSE Zero)

\* a variant without line 73: the anti-diagonal is left as it is
DropAntiDiag_Kept(T, i, j) == T[i][j]

\* line 73: thth -= np.diag(np.diag(thth[::-1, :]))[::-1, :]
DropAntiDiag(T, i, j) ==
    SubV(T[i][j], IF j = Len(T) + 1 - i THEN T[i][j] ELSE Zero)

Mat(N, f(_, _)) == [i \in 1..N |-> [j \in 1..N |-> f(i, j)]]

\* F applied to the value of x, which is computed once
With(x, F(_)) == CHOOSE r \in {F(y) : y \in {x}} : TRUE

\* lines 70-74, one array statement after the other
Hermitise(T0) ==
    LET N == Len(T0)
        S1(T) == Mat(N, LAMBDA i, j : DropLower(T, i, j))
        S2(T) == Mat(N, LAMBDA i, j : AddConjUpper(T, i, j))
        S3(T) == Mat(N, LAMBDA i, j : DropDiag(T, i, j))
        S4(T) == Mat(N, LAMBDA i, j : DropAntiDiag(T, i, j))
        S5(T) == Mat(N, LAMBDA i, j : NanToNum(T[i][j]))
    IN With(With(With(With(With(T0, S1), S2), S3), S4), S5)

Raised == [raised |-> TRUE, M |-> <<>>, reads |-> {}]

\* lines 59-76 on the centers c
MapOn(SS, tau, fd, eta, c) ==
    LET N == Len(c)
        P == {p \in (1..N) \X (1..N) : pnts(c, tau, fd, eta, p[1], p[2])}
    IN IF \E p \in P : ~IndexOk(fd_inv(c, fd, p[1], p[2]), Len(fd)) THEN Raised
       ELSE
       LET T0 == Mat(N, LAMBDA i, j :
                     MulSqrt(Fill(SS, c, tau, fd, eta, i, j), FluxRad(c, eta, i, j)))
       IN [raised |-> FALSE, M |-> With(T0, Hermitise), reads |-> P]

thth_map(SS, tau, fd, eta, edges) ==
    LET On(bc) == IF ~bc.ok THEN Raised ELSE MapOn(SS, tau, fd, eta, bc.c)
    IN With(bin_centers(edges), On)

(***************************************************************************)
(* Inputs of the mapping routines.                                         *)
(***************************************************************************)
\* fft_axis (229-232): fftshift(fftfreq(n)) in steps of d
Axis(n, d) == [k \in 1..n |-> (k - 1 - n \div 2) * d]

\* steps of the tau and fd axes: a fine and a coarse grid each
TauSteps == {4608, 18432}
FdSteps == {48, 288}

EdgeSets ==
    { <<-24, 24>>,
      <<-48, 0, 48>>,
      <<-72, -24, 24, 72>>,
      <<-96, -48, 0, 48, 96>>,
      <<-168, -120, -72, -24, 24, 72, 120, 168>>,
      <<-168, -72, -24, 24, 72, 168>> }

EtaSet == {1, 2}

AxisLens == {NAxis - 1, NAxis}

SSVals == {Cx(3, 2)}

\* a spectrum with value v at bin p (0-based (tau, fd)) over background bg:
\* "zero", or a constant
SSOf(nt, nf, p, v, bg) ==
    [t \in 1..nt |-> [f \in 1..nf |->
        IF <<t - 1, f - 1>> = p THEN v
        ELSE IF bg = "flat" THEN Cx(1, 1)
        ELSE Zero]]

\* the nonzero bin and the background: every bin over a zero background, one
\* bin over a constant one
Points ==
    ({"zero"} \X ((0..(NAxis - 1)) \X (0..(NAxis - 1)))) \cup {<<"flat", <<0, 0>>>>}

MapInputs ==
    {[SS |-> SSOf(nt, nf, bp[2], v, bp[1]), tau |-> Axis(nt, dt), fd |-> Axis(nf, df),
      eta |-> eta, edges |-> e, p |-> bp[2], v |-> v, bg |-> bp[1]] :
        nt \in AxisLens, nf \in AxisLens, dt \in TauSteps, df \in FdSteps,
        bp \in Points, v \in SSVals, eta \in EtaSet, e \in EdgeSets}

(***************************************************************************)
(* thth_redmap (79-108).                                                   *)
(***************************************************************************)
\* a variant with closed comparisons
th_pnts_Closed(c, tau, fd, eta, i) ==
    /\ (c[i] * c[i]) * eta <= AbsV(SeqMax(tau))
    /\ AbsV(c[i]) <= AbsV(SeqMax(fd)) \div 2

\* lines 98-99: the centers whose parabola point lies inside the SS
th_pnts(c, tau, fd, eta, i) ==
    /\ (c[i] * c[i]) * eta < AbsV(SeqMax(tau))
    /\ AbsV(c[i]) < AbsV(SeqMax(fd)) \div 2

\* the indices a boolean mask selects, in order
MaskIdx(n, keep(_)) == SelectSeq([i \in 1..n |-> i], keep)

\* line 100: thth[th_pnts, :][:, th_pnts]
SubMatrix(T, idx) == [x \in 1..Len(idx) |-> [y \in 1..Len(idx) |-> T[idx[x]][idx[y]]]]

\* lines 101-107: midpoints of the kept centers, one more edge at each end a
\* mean spacing away; a single midpoint has no spacing (the mean of nothing
\* is NaN) and no midpoint at all makes edges_red[0] raise IndexError
EdgesRed(kc) ==
    LET e == Mids(kc) IN
    IF Len(e) = 0 THEN [raised |-> TRUE, nan |-> FALSE, e |-> <<>>]
    ELSE IF Len(e) = 1 THEN [raised |-> FALSE, nan |-> TRUE, e |-> <<0>> \o e \o <<0>>]
    ELSE [raised |-> FALSE, nan |-> FALSE,
          e |-> <<e[1] - DiffMean(e)>> \o e \o <<e[Len(e)] + DiffMean(e)>>]

RedRaised ==
    [raised |-> TRUE, M |-> <<>>, edges_red |-> <<>>, nan_edges |-> FALSE,
     kept |-> <<>>, cents |-> <<>>]

\* lines 95-108 on the full map t and the centers c
RedOn(t, tau, fd, eta, c) ==
    LET Cut(idx) ==
            LET kc == [x \in 1..Len(idx) |-> c[idx[x]]]
                er == EdgesRed(kc)
            IN IF er.raised THEN RedRaised
               ELSE [raised |-> FALSE, M |-> SubMatrix(t.M, idx), edges_red |-> er.e,
                     nan_edges |-> er.nan, kept |-> idx, cents |-> kc]
    IN With(MaskIdx(Len(c), LAMBDA i : th_pnts(c, tau, fd, eta, i)), Cut)

thth_redmap(SS, tau, fd, eta, edges) ==
    LET On(X) == IF X[1].raised THEN RedRaised ELSE RedOn(X[1], tau, fd, eta, X[2].c)
    IN With(<<thth_map(SS, tau, fd, eta, edges), bin_centers(edges)>>, On)

(***************************************************************************)
(* rev_map (111-157).                                                      *)
(***************************************************************************)
\* lines 127-128
fd_map(c, x, y) == c[y] - c[x]
tau_map(c, eta, x, y) == eta * (c[y] * c[y] - c[x] * c[x])

\* lines 129-130: bin edges centred on the axis samples
HistEdges(ax) ==
    [k \in 1..(Len(ax) + 1) |-> ((2 * (k - 1) - 1) * (ax[2] - ax[1])) \div 2 + ax[1]]

\* np.histogram2d: half-open bins, the last one closed; 0 when x is outside
HistBin(x, e) ==
    IF x < e[1] \/ x > e[Len(e)] THEN 0
    ELSE IF x = e[Len(e)] THEN Len(e) - 1
    ELSE CHOOSE k \in 1..(Len(e) - 1) : e[k] <= x /\ x < e[k + 1]

\* a variant whose weights are not divided by the flux factor
Weight_Undivided(thth, c, eta, x, y) == thth[x][y]

\* the weights: thth / sqrt(|2 eta fd_map.T|)
Weight(thth, c, eta, x, y) == DivSqrt(thth[x][y], AbsV(2 * eta * fd_map(c, y, x)))

\* the sum of the weights w[p] of the pairs p of S
RECURSIVE SumV(_, _)
SumV(S, w) ==
    IF S = {} THEN Zero
    ELSE LET p == CHOOSE q \in S : TRUE IN AddV(w[p], SumV(S \ {p}, w))

\* the bin (fd bin, tau bin) histogram2d counts each theta pair into, from
\* the coordinates (sgn fd_map, sgn tau_map)
BinOf(c, tau, fd, eta, sgn) ==
    LET B(E) == [p \in (1..Len(c)) \X (1..Len(c)) |->
                    <<HistBin(sgn * fd_map(c, p[1], p[2]), E[1]),
                      HistBin(sgn * tau_map(c, eta, p[1], p[2]), E[2])>>]
    IN With(<<HistEdges(fd), HistEdges(tau)>>, B)

InBin(c, tau, fd, eta, sgn, fb, tb) ==
    LET B == BinOf(c, tau, fd, eta, sgn) IN {p \in DOMAIN B : B[p] = <<fb, tb>>}

GCD3(x, y, z) == GCD(GCD(AbsV(x), AbsV(y)), AbsV(z))

\* lines 155-156: recov /= norm, then nan_to_num; the quotient v/n in lowest terms
Quot(v, n) ==
    IF n = 0 \/ v.k = "nan" THEN [v |-> Zero, n |-> 1]
    ELSE IF v.k = "inf" THEN [v |-> Big, n |-> 1]
    ELSE IF v.k # "num" \/ v = Zero THEN [v |-> v, n |-> 1]
    ELSE LET g == GCD3(v.re, v.im, n)
         IN [v |-> Mk(v.re \div g, v.im \div g, v.num, v.den), n |-> n \div g]

\* lines 132-154 for one bin: the weighted sums (real and imaginary parts
\* alike) and the counts, the negated coordinates folded in with the
\* conjugate weight when isdspec
RecovBin(W, BD, BF, isdspec, fb, tb) ==
    LET D == {p \in DOMAIN W : BD[p] = <<fb, tb>>}
        F == IF isdspec THEN {p \in DOMAIN W : BF[p] = <<fb, tb>>} ELSE {}
        sum == AddV(SumV(D, W), SumV(F, [p \in F |-> ConjV(W[p])]))
    IN Quot(sum, Cardinality(D) + Cardinality(F))

RevRaised == [raised |-> TRUE, R |-> <<>>]

\* the result is indexed [tau][fd] (recov.T)
rev_map(thth, tau, fd, eta, edges, isdspec) ==
    LET Rec(X) == [t \in 1..Len(tau) |-> [f \in 1..Len(fd) |->
                      RecovBin(X[1], X[2], X[3], isdspec, f, t)]]
        Tab(c) == <<[p \in (1..Len(c)) \X (1..Len(c)) |-> Weight(thth, c, eta, p[1], p[2])],
                    BinOf(c, tau, fd, eta, 1), BinOf(c, tau, fd, eta, -1)>>
        On(bc) == IF ~bc.ok \/ Len(thth) # Len(bc.c) THEN RevRaised
                  ELSE [raised |-> FALSE, R |-> With(With(bc.c, Tab), Rec)]
    IN With(bin_centers(edges), On)

(***************************************************************************)
(* Eval_calc (183-189).  v0 is a basic slice of thth_red, that is a view   *)
(* of its central row: the in-place division of line 187 writes through    *)
(* it into thth_red, and line 188 hands that array to eigsh.  The          *)
(* eigensolver is scipy's; its outcome is an input of the model.           *)
(***************************************************************************)
\* (np.abs(v0)**2).sum() for a row of elements (re + i im) sqrt(num/den)
RECURSIVE NormSq(_, _)
NormSq(row, n) ==
    IF n = 0 THEN 0
    ELSE NormSq(row, n - 1)
         + ((row[n].re * row[n].re + row[n].im * row[n].im) * row[n].num) \div row[n].den

\* line 187: v0 /= np.sqrt(...)
Normalised(row) == [j \in DOMAIN row |-> DivSqrt(row[j], NormSq(row, Len(row)))]

\* lines 186-187 on the array thth_red: the row the view v0 aliases is rewritten
SeedInPlace(M) ==
    [M EXCEPT ![Len(M) \div 2 + 1] = Normalised(M[Len(M) \div 2 + 1])]

EvalRaised == [raised |-> TRUE, red |-> RedRaised, solved |-> <<>>, v0 |-> <<>>, w |-> 0]

\* out: whether eigsh raises, and the eigenvalue it returns otherwise
Eval_calc(SS, tau, fd, eta, edges, out) ==
    LET On(red) ==
          IF red.raised \/ out.raise THEN EvalRaised
          ELSE LET A == SeedInPlace(red.M)
               IN [raised |-> FALSE, red |-> red, solved |-> A,
                   v0 |-> A[Len(A) \div 2 + 1], w |-> AbsV(out.w)]
    IN With(thth_redmap(SS, tau, fd, eta, edges), On)

\* what eigsh may do: raise, or return an eigenvalue
EigOutcomes == {[raise |-> TRUE, w |-> 0], [raise |-> FALSE, w |-> -2]}

MIdle == [pc |-> "idle"]
SIdle == [pc |-> "idle"]
AIdle == [pc |-> "idle"]

MapInit ==
    /\ \E in \in MapInputs :
          /\ in.p[1] < Len(in.tau) /\ in.p[2] < Len(in.fd)
          /\ m = [pc |-> "start", in |-> in, cents |-> [ok |-> FALSE, c |-> <<>>],
                  thth |-> Raised, red |-> RedRaised,
                  isdspec |-> TRUE, recov |-> RevRaised, ev |-> EvalRaised,
                  args |-> in]
    /\ s = SIdle
    /\ a = AIdle

Call_thth_map ==
    /\ m.pc = "start"
    /\ m' = [m EXCEPT !.pc = "mapped",
                      !.cents = bin_centers(m.in.edges),
                      !.thth = thth_map(m.in.SS, m.in.tau, m.in.fd, m.in.eta, m.in.edges)]
    /\ UNCHANGED <<s, a>>

\* thth_redmap; thth is the full map it computes on line 93
Call_thth_redmap ==
    /\ m.pc = "start"
    /\ m' = [m EXCEPT !.pc = "reduced",
                      !.cents = bin_centers(m.in.edges),
                      !.thth = thth_map(m.in.SS, m.in.tau, m.in.fd, m.in.eta, m.in.edges),
                      !.red = thth_redmap(m.in.SS, m.in.tau, m.in.fd, m.in.eta, m.in.edges)]
    /\ UNCHANGED <<s, a>>

\* the round trip: rev_map applied to what thth_map returned
Call_rev_map ==
    /\ m.pc = "mapped"
    /\ ~m.thth.raised
    /\ \E isd \in BOOLEAN :
          m' = [m EXCEPT !.pc = "recovered",
                         !.isdspec = isd,
                         !.recov = rev_map(m.thth.M, m.in.tau, m.in.fd, m.in.eta,
                                           m.in.edges, isd)]
    /\ UNCHANGED <<s, a>>

\* rev_map on the reduced map with edges_red, as modeler (174) and PlotFunc
\* (316) call it; cents becomes the centers rev_map computes on lines 124-125.
\* (Two kept centers leave NaN outer edges; that case is not taken further.)
Call_rev_map_red ==
    /\ m.pc = "reduced"
    /\ ~m.red.raised
    /\ ~m.red.nan_edges
    /\ \E isd \in BOOLEAN :
          m' = [m EXCEPT !.pc = "modelled",
                         !.isdspec = isd,
                         !.cents = bin_centers(m.red.edges_red),
                         !.recov = rev_map(m.red.M, m.in.tau, m.in.fd, m.in.eta,
                                           m.red.edges_red, isd)]
    /\ UNCHANGED <<s, a>>

\* Eval_calc; args are its array arguments as the call leaves them (no
\* statement of Eval_calc, thth_redmap or thth_map writes to them)
Call_Eval_calc ==
    /\ m.pc = "start"
    /\ \E out \in EigOutcomes :
          m' = [m EXCEPT !.pc = "evald",
                         !.ev = Eval_calc(m.in.SS, m.in.tau, m.in.fd, m.in.eta,
                                          m.in.edges, out),
                         !.args = m.in]
    /\ UNCHANGED <<s, a>>

MapNext ==
    \/ Call_thth_map
    \/ Call_thth_redmap
    \/ Call_rev_map
    \/ Call_rev_map_red
    \/ Call_Eval_calc

SpecMap == MapInit /\ [][MapNext]_vars

(***************************************************************************)
(* Claims about the mapping routines.                                      *)
(***************************************************************************)
Returned_thth == m.pc = "mapped" /\ ~m.thth.raised

Pairs(N) == (1..N) \X (1..N)

\* C1: the matrix thth_map returns is Hermitian with a zero diagonal and a
\* zero anti-diagonal.
C1_Hermitian ==
    Returned_thth =>
        LET M == m.thth.M
            N == Len(M)
        IN /\ N = Len(m.cents.c)
           /\ \A i \in 1..N : Len(M[i]) = N
           /\ \A p \in Pairs(N) : M[p[1]][p[2]] = ConjV(M[p[2]][p[1]])
           /\ \A i \in 1..N : M[i][i] = Zero /\ M[i][N + 1 - i] = Zero

\* a returned map of five or more centers with a nonzero entry
C1_Witness ==
    /\ Returned_thth
    /\ Len(m.thth.M) >= 5
    /\ \E p \in Pairs(Len(m.thth.M)) : m.thth.M[p[1]][p[2]] # Zero

\* whether the pair's implied (tau, fd) coordinate falls outside the SS
OutOfRange(in, c, i, j) ==
    \/ tau_inv(c, in.tau, in.eta, i, j) \notin 1..(Len(in.tau) - 1)
    \/ fd_inv(c, in.fd, i, j) \notin 0..(Len(in.fd) - 1)

\* C2: thth_map never raises on account of a theta pair that falls outside the
\* secondary spectrum, and no SS element is read for such a pair.
C2_OutOfRangeSilent ==
    (m.pc = "mapped" /\ m.cents.ok) =>
        /\ ~m.thth.raised
        /\ \A p \in m.thth.reads : ~OutOfRange(m.in, m.cents.c, p[1], p[2])

\* C2, the raising half alone
C2_NeverRaises == (m.pc = "mapped" /\ m.cents.ok) => ~m.thth.raised

\* C2, the reading half alone
C2_NoWrapRead ==
    (m.pc = "mapped" /\ ~m.thth.raised) =>
        \A p \in m.thth.reads : ~OutOfRange(m.in, m.cents.c, p[1], p[2])

\* C2, the entries: the entry of every pair outside the secondary spectrum is
\* zero in the returned map
C2_OutOfRangeZero ==
    (m.pc = "mapped" /\ ~m.thth.raised) =>
        \A p \in Pairs(Len(m.cents.c)) :
            OutOfRange(m.in, m.cents.c, p[1], p[2]) => m.thth.M[p[1]][p[2]] = Zero

\* C2, the entries, where both a pair and its transpose are outside
C2_BothOutZero ==
    (m.pc = "mapped" /\ ~m.thth.raised) =>
        \A p \in Pairs(Len(m.cents.c)) :
            (/\ OutOfRange(m.in, m.cents.c, p[1], p[2])
             /\ OutOfRange(m.in, m.cents.c, p[2], p[1])) => m.thth.M[p[1]][p[2]] = Zero

\* a read through a negative fd index is of a pair below the diagonal, whose
\* entry line 70 discards
C2_WrapBelowDiagonal ==
    (m.pc = "mapped" /\ ~m.thth.raised) =>
        \A p \in m.thth.reads : fd_inv(m.cents.c, m.in.fd, p[1], p[2]) < 0 => p[2] < p[1]

\* C7: on a symmetric ascending edge array the bin-center computation
\* completes, and its centers are antisymmetric with an exact zero among them.
C7_BinCenters ==
    m.pc = "mapped" =>
        /\ m.cents.ok
        /\ LET c == m.cents.c IN
           /\ \A k \in DOMAIN c : c[k] = -c[Len(c) + 1 - k]
           /\ \E k \in DOMAIN c : c[k] = 0

\* C7 with the completion left out
C7_WhenCompleted ==
    (m.pc = "mapped" /\ m.cents.ok) =>
        LET c == m.cents.c IN
           /\ \A k \in DOMAIN c : c[k] = -c[Len(c) + 1 - k]
           /\ \E k \in DOMAIN c : c[k] = 0

\* C6: thth_redmap keeps exactly the centers with eta theta^2 < |tau_max| and
\* |theta| < |fd_max|/2, and returns the square sub-matrix of the full map at
\* the kept centers.
C6_Reduced ==
    (m.pc = "reduced" /\ ~m.red.raised) =>
        LET c == m.cents.c
            K == {i \in DOMAIN c : /\ m.in.eta * c[i] * c[i] < AbsV(SeqMax(m.in.tau))
                                   /\ 2 * AbsV(c[i]) < AbsV(SeqMax(m.in.fd))}
            R == m.red.M
            k == Len(m.red.kept)
        IN /\ {m.red.kept[x] : x \in 1..k} = K
           /\ k = Cardinality(K)
           /\ \A x \in 1..(k - 1) : m.red.kept[x] < m.red.kept[x + 1]
           /\ Len(R) = k
           /\ \A x \in 1..k : Len(R[x]) = k
           /\ \A x \in 1..k : \A y \in 1..k :
                 R[x][y] = m.thth.M[m.red.kept[x]][m.red.kept[y]]

\* a reduction that keeps three or more centers, drops some, and has a
\* nonzero entry
C6_Witness ==
    /\ m.pc = "reduced" /\ ~m.red.raised
    /\ Len(m.red.kept) >= 3
    /\ Len(m.red.kept) < Len(m.cents.c)
    /\ \E x \in 1..Len(m.red.M) : \E y \in 1..Len(m.red.M) : m.red.M[x][y] # Zero

\* C10: when k >= 3 centers are kept, edges_red has k+1 entries and the
\* centers rev_map recomputes from edges_red are the kept centers.
C10_EdgesRedCenters ==
    (m.pc = "modelled" /\ Len(m.red.kept) >= 3) =>
        /\ Len(m.red.edges_red) = Len(m.red.kept) + 1
        /\ ~m.recov.raised
        /\ m.cents = [ok |-> TRUE, c |-> m.red.cents]

\* C10, the count alone
C10_Count ==
    (m.pc = "modelled" /\ Len(m.red.kept) >= 3) =>
        Len(m.red.edges_red) = Len(m.red.kept) + 1

\* C10 on evenly spaced kept centers
C10_Uniform ==
    (/\ m.pc = "modelled"
     /\ Len(m.red.kept) >= 3
     /\ \A x \in 2..(Len(m.red.cents) - 1) :
           m.red.cents[x + 1] - m.red.cents[x] = m.red.cents[x] - m.red.cents[x - 1]) =>
        m.cents = [ok |-> TRUE, c |-> m.red.cents]

IsHermitian(M) ==
    \A p \in Pairs(Len(M)) : M[p[1]][p[2]] = ConjV(M[p[2]][p[1]])

\* C9: the matrix Eval_calc hands to the eigensolver is the reduced map that
\* thth_redmap returned, still Hermitian, and SS, tau, fd and edges are as
\* they were before the call (taken on reduced maps of three or more centers
\* whose central row is not all zero, where the seed is a finite vector).
C9_SolvesReducedMap ==
    (/\ m.pc = "evald" /\ ~m.ev.raised
     /\ Len(m.ev.red.M) >= 3
     /\ \E y \in 1..Len(m.ev.red.M) : m.ev.red.M[Len(m.ev.red.M) \div 2 + 1][y] # Zero) =>
        /\ m.ev.solved = m.ev.red.M
        /\ IsHermitian(m.ev.solved)
        /\ m.args = m.in

\* C9, the arguments alone
C9_ArgsUnchanged == (m.pc = "evald" /\ ~m.ev.raised) => m.args = m.in

\* C9 off the central row
C9_OtherRows ==
    (m.pc = "evald" /\ ~m.ev.raised) =>
        \A x \in DOMAIN m.ev.solved :
            x # Len(m.ev.solved) \div 2 + 1 => m.ev.solved[x] = m.ev.red.M[x]

\* the bin (0-based (tau, fd)) of the single point, as 1-based indices
PT == m.in.p[1] + 1
PF == m.in.p[2] + 1

\* the theta pairs whose coordinate rev_map bins into the point's bin
LandIn(in, c) == InBin(c, in.tau, in.fd, in.eta, 1, in.p[2] + 1, in.p[1] + 1)

\* the theta pairs for which thth_map reads the point's bin
ReadFrom(in, c, P) ==
    {p \in P : /\ tau_inv(c, in.tau, in.eta, p[1], p[2]) = in.p[1]
               /\ PyIndex(fd_inv(c, in.fd, p[1], p[2]), Len(in.fd)) = in.p[2]}

\* |x|^2 <= |v|^2 for a recovered bin x = x.v / x.n
NoLarger(x, v) ==
    /\ x.v.k = "num"
    /\ (x.v.re * x.v.re + x.v.im * x.v.im) * x.v.num
          <= (v.re * v.re + v.im * v.im) * x.n * x.n * x.v.den

IsPeak(R, t, f, v) ==
    /\ R[t][f] = [v |-> v, n |-> 1]
    /\ \A x \in DOMAIN R : \A y \in DOMAIN R[x] : NoLarger(R[x][y], v)

C3_Recoverable(in, c) ==
    /\ HistEdges(in.fd)[in.p[2] + 1] > 0
    /\ in.p[1] >= 1
    /\ HistBin(0, HistEdges(in.tau)) # in.p[1] + 1
    /\ LandIn(in, c) # {}
    /\ \A p \in LandIn(in, c) :
          /\ fd_map(c, p[1], p[2]) # HistEdges(in.fd)[Len(in.fd) + 1]
          /\ tau_map(c, in.eta, p[1], p[2]) # HistEdges(in.tau)[Len(in.tau) + 1]

\* the masked theta pairs whose fd index lies below -len(fd): line 64 raises
\* IndexError on them
BelowSS(in, c) ==
    {p \in Pairs(Len(c)) : /\ pnts(c, in.tau, in.fd, in.eta, p[1], p[2])
                           /\ ~IndexOk(fd_inv(c, in.fd, p[1], p[2]), Len(in.fd))}

NCand == 100     \* np.linspace(eta_low, eta_high, 100)
npad == 3

\* the arrays of a search: axes of (npad+1)*2 samples, three theta bins
SearchTau == Axis((npad + 1) * 2, 61440)
SearchFd == Axis((npad + 1) * 2, 96)
SearchEdges == <<-72, -24, 24, 72>>
SearchSS == [t \in 1..Len(SearchTau) |-> [f \in 1..Len(SearchFd) |-> Zero]]

\* an eigenvalue or a curvature: a number, or NaN
Num(v) == [nan |-> FALSE, v |-> v]
NotANumber == [nan |-> TRUE, v |-> 0]

\* the eigenvalue the solver finds for candidate i (0-based)
Curve(cfg, i) ==
    IF cfg.shape = "flat" THEN NCand
    ELSE IF cfg.shape = "tie" /\ i = cfg.pk + 1 THEN 2 * NCand
    ELSE 2 * NCand - AbsV(i - cfg.pk)

\* line 253: the i-th candidate curvature
EtaCand(cfg, i) == cfg.eta_low + i * cfg.step

\* a variant whose except leaves the entry at its initial zero
SweepEntry_NoNaN(cfg, i) ==
    LET r == Eval_calc(SearchSS, SearchTau, SearchFd, EtaCand(cfg, i), SearchEdges,
                       [raise |-> i \in cfg.raise, w |-> Curve(cfg, i)])
    IN IF r.raised THEN Num(0)
       ELSE IF i \in cfg.nans THEN NotANumber
       ELSE Num(r.w)

\* lines 268-271: one pass of the sweep's try/except
SweepEntry(cfg, i) ==
    LET r == Eval_calc(SearchSS, SearchTau, SearchFd, EtaCand(cfg, i), SearchEdges,
                       [raise |-> i \in cfg.raise, w |-> Curve(cfg, i)])
    IN IF r.raised THEN NotANumber
       ELSE IF i \in cfg.nans THEN NotANumber
       ELSE Num(r.w)

IsFinite(e) == ~e.nan

\* x[mask] for a boolean mask given as a predicate on the index
Take(x, keep(_)) ==
    LET idx == SelectSeq([k \in 1..Len(x) |-> k], keep)
    IN [k \in 1..Len(idx) |-> x[idx[k]]]

MaxOf(e) == CHOOSE v \in {e[k].v : k \in DOMAIN e} : \A k \in DOMAIN e : e[k].v <= v

\* numpy broadcasting of a length-n array against a length-k one
Broadcasts(n, k) == k = 1 \/ k = n \/ n = 1
Bc(x, k, j) == IF Len(x) = 1 THEN x[1] ELSE x[j]

FitFailed(etas, eigs) ==
    [ok |-> FALSE, etas |-> etas, eigs |-> eigs, etas_fit |-> <<>>, eigs_fit |-> <<>>,
     eta_fit |-> NotANumber, eta_sig |-> NotANumber]

\* lines 275-288 on the finite candidates; cf is what curve_fit does when it
\* is given at least as many points as parameters
FitOn(etas, eigs, cf) ==
    IF Len(eigs) = 0 THEN FitFailed(etas, eigs)                \* eigs.max() of nothing
    ELSE
    LET top == Take(etas, LAMBDA k : eigs[k].v = MaxOf(eigs))  \* etas[eigs == eigs.max()]
    IN IF ~Broadcasts(Len(etas), Len(top)) THEN FitFailed(etas, eigs)
       ELSE
       LET win(k) == 10 * AbsV(etas[k] - Bc(top, Len(top), k)) < Bc(top, Len(top), k)
           etas_fit == Take(etas, win)
           eigs_fit == Take(eigs, win)
       IN IF Len(eigs_fit) = 0 THEN FitFailed(etas, eigs)      \* eigs_fit.max()
          ELSE IF Len(eigs_fit) < 3 \/ ~cf.ok THEN FitFailed(etas, eigs)   \* curve_fit
          ELSE
          LET C == MaxOf(eigs_fit)
              x0 == Take(etas_fit, LAMBDA k : eigs_fit[k].v = C)[1]
          IN [ok |-> TRUE, etas |-> etas, eigs |-> eigs,
              etas_fit |-> etas_fit, eigs_fit |-> eigs_fit,
              eta_fit |-> Num(x0 + cf.dx),
              eta_sig |-> IF cf.flat THEN NotANumber ELSE Num(cf.sig)]

\* lines 272-292: the try block and its except
FitBlock(etas, eigs, cf) ==
    FitOn(Take(etas, LAMBDA k : IsFinite(eigs[k])),
          Take(eigs, LAMBDA k : IsFinite(eigs[k])), cf)

\* curve_fit: no convergence (RuntimeError), or a parabola whose vertex lies dx
\* off the seed, with a zero leading coefficient when flat
FitOutcomes ==
    {[ok |-> FALSE, dx |-> 0, sig |-> 0, flat |-> FALSE],
     [ok |-> TRUE, dx |-> 0, sig |-> 1, flat |-> FALSE],
     [ok |-> TRUE, dx |-> 1, sig |-> 2, flat |-> TRUE]}

\* the candidates at which the solver raises, and those where it returns NaN
SolverRaises(pk, f) ==
    CASE f = "none" -> {} [] f = "peak" -> {pk} [] f = "two" -> {5}
      [] f = "all" -> 0..(NCand - 1)
SolverNaNs(f) == IF f = "two" THEN {60} ELSE {}

\* the solver's behaviour over a sweep: the shape of the eigenvalue curve and
\* where the solver fails
Behaviours ==
    ({"peak"} \X {"none", "peak", "two", "all"}) \cup ({"tie", "flat"} \X {"none", "two"})

Scenarios ==
    {[eta_low |-> lo, step |-> 1, pk |-> pk, shape |-> b[1],
      raise |-> SolverRaises(pk, b[2]), nans |-> SolverNaNs(b[2]),
      plot |-> pl, name |-> "chunk.png", meanf |-> 1400, meant |-> 30] :
        lo \in {0, 1}, pk \in {0, 37, 99}, b \in Behaviours, pl \in BOOLEAN}

NoFit ==
    [ok |-> FALSE, etas |-> <<>>, eigs |-> <<>>, etas_fit |-> <<>>, eigs_fit |-> <<>>,
     eta_fit |-> NotANumber, eta_sig |-> NotANumber]

SearchInit ==
    /\ m = MIdle
    /\ a = AIdle
    /\ \E cfg \in Scenarios :
          s = [pc |-> "sweep", cfg |-> cfg, i |-> 0,
               etas |-> [k \in 1..NCand |-> EtaCand(cfg, k - 1)],
               eigs |-> [k \in 1..NCand |-> Num(0)],
               swept |-> <<>>, cf |-> CHOOSE cf \in FitOutcomes : ~cf.ok,
               fit |-> NoFit, eta_fit |-> NotANumber, eta_sig |-> NotANumber,
               out |-> <<>>, ret |-> <<>>]

\* the loop of line 267 has candidates left, or is over
Sweeping == s.pc = "sweep" /\ s.i < NCand
Swept == s.pc = "sweep" /\ s.i = NCand

\* lines 267-271: one candidate
Sweep ==
    /\ Sweeping
    /\ s' = [s EXCEPT !.eigs[s.i + 1] = SweepEntry(s.cfg, s.i), !.i = s.i + 1]
    /\ UNCHANGED <<m, a>>

\* lines 272-292; swept keeps eigs as the loop left it, cf what curve_fit
\* would do, fit the names the block bound
Fit ==
    /\ Swept
    /\ \E cf \in FitOutcomes :
          LET r == FitBlock(s.etas, s.eigs, cf)
          IN s' = [s EXCEPT !.pc = "plot", !.fit = r, !.etas = r.etas, !.eigs = r.eigs,
                            !.eta_fit = r.eta_fit, !.eta_sig = r.eta_sig,
                            !.swept = s.eigs, !.cf = cf]
    /\ UNCHANGED <<m, a>>

\* a variant whose except clause also resets the estimate
Plot_Resets ==
    /\ s.pc = "plot"
    /\ \/ /\ s.cfg.plot
          /\ s' = [s EXCEPT !.pc = "print", !.out = Append(s.out, "Plotting Error"),
                            !.eta_fit = NotANumber, !.eta_sig = NotANumber]
       \/ /\ ~s.cfg.plot
          /\ s' = [s EXCEPT !.pc = "print"]
    /\ UNCHANGED <<m, a>>

\* lines 293-299: the names time and freq in the call of PlotFunc are bound
\* nowhere (the parameters are time2 and freq2), so evaluating the arguments
\* raises NameError, which the except catches
Plot ==
    /\ s.pc = "plot"
    /\ \/ /\ s.cfg.plot
          /\ s' = [s EXCEPT !.pc = "print", !.out = Append(s.out, "Plotting Error")]
       \/ /\ ~s.cfg.plot
          /\ s' = [s EXCEPT !.pc = "print"]
    /\ UNCHANGED <<m, a>>

\* lines 300-301
Return ==
    /\ s.pc = "print"
    /\ s' = [s EXCEPT !.pc = "done",
                      !.out = Append(s.out, "Chunk completed"),
                      !.ret = <<s.eta_fit, s.eta_sig, s.cfg.meanf, s.cfg.meant>>]
    /\ UNCHANGED <<m, a>>

SearchNext == Sweep \/ Fit \/ Plot \/ Return

SpecSearch == SearchInit /\ [][SearchNext]_vars

(***************************************************************************)
(* Claims about single_search.                                             *)
(***************************************************************************)
AfterFit == s.pc \in {"plot", "print", "done"}

\* the curvatures at which thth_redmap raises on the arrays of the search
RedmapRaisesAt ==
    [e \in {EtaCand(c, i) : c \in Scenarios, i \in 0..(NCand - 1)} |->
        thth_redmap(SearchSS, SearchTau, SearchFd, e, SearchEdges).raised]

\* whether evaluating candidate i (0-based) raises: in thth_redmap, or in
\* the solver
CandRaises(cfg, i) == RedmapRaisesAt[EtaCand(cfg, i)] \/ i \in cfg.raise

\* the candidates (1-based) whose eigenvalue is finite after the sweep, and
\* those among them of the largest eigenvalue
Finite == {k \in 1..NCand : ~s.swept[k].nan}
Tops == UNION {{k \in F : \A j \in F : s.swept[j].v <= s.swept[k].v} : F \in {Finite}}
InWindow(k, pk) ==
    10 * AbsV(EtaCand(s.cfg, k - 1) - EtaCand(s.cfg, pk - 1)) < EtaCand(s.cfg, pk - 1)

\* the sweep: a raising candidate is recorded as NaN, the others keep their
\* eigenvalue, and all NCand candidates are evaluated
SweepRecorded ==
    /\ (s.pc = "sweep") =>
          \A k \in 1..s.i :
              s.eigs[k] = IF CandRaises(s.cfg, k - 1) \/ (k - 1) \in s.cfg.nans
                          THEN NotANumber ELSE Num(Curve(s.cfg, k - 1))
    /\ AfterFit => Len(s.swept) = NCand

\* the filter: what the fit block works on are the finite candidates, in order
OnlyFinite ==
    AfterFit =>
        \E F \in {Finite} :
            /\ Len(s.etas) = Cardinality(F) /\ Len(s.eigs) = Cardinality(F)
            /\ \A k \in 1..Len(s.eigs) :
                  /\ ~s.eigs[k].nan
                  /\ \E j \in F : s.etas[k] = EtaCand(s.cfg, j - 1) /\ s.eigs[k] = s.swept[j]
            /\ \A k \in 1..(Len(s.etas) - 1) : s.etas[k] < s.etas[k + 1]

\* C4 as stated: raising candidates are recorded as NaN without disturbing the
\* sweep, NaN candidates are dropped, and a fit is still produced from the
\* finite ones (here: whenever three or more are finite and curve_fit can
\* converge).
C4_FitStillProduced ==
    /\ SweepRecorded
    /\ OnlyFinite
    /\ (AfterFit /\ Cardinality(Finite) >= 3 /\ s.cf.ok) => s.fit.ok

\* when the fit block has a window of three or more points to hand to
\* curve_fit: the finite candidates F have a single maximum and three or more
\* lie within a tenth of its curvature, or they are all equal and three or
\* more have a positive curvature
HasWindow(F, T) ==
    \/ /\ Cardinality(T) = 1
       /\ Cardinality({k \in F : \A pk \in T : InWindow(k, pk)}) >= 3
    \/ /\ T = F
       /\ Cardinality({k \in F : EtaCand(s.cfg, k - 1) > 0}) >= 3

\* C4, amended: raising candidates are recorded as NaN without disturbing the
\* sweep, all NCand candidates are evaluated and the NaN ones are dropped
\* before the peak is located; a fit is produced exactly when curve_fit
\* converges on a window of three or more points (HasWindow); several maxima
\* among unequal candidates, or a smaller window, give no fit.
C4_SweepRobust ==
    /\ SweepRecorded
    /\ OnlyFinite
    /\ AfterFit =>
          \E F \in {Finite} : \E T \in {Tops} :
              /\ s.fit.ok <=> (s.cf.ok /\ HasWindow(F, T))
              /\ s.fit.ok =>
                    /\ ~s.fit.eta_fit.nan
                    /\ \A k \in 1..Len(s.fit.etas_fit) :
                          \E j \in F : /\ s.fit.etas_fit[k] = EtaCand(s.cfg, j - 1)
                                       /\ s.fit.eigs_fit[k] = s.swept[j]

\* a sweep in which candidates raised and a fit came out of the others
C4_Witness ==
    /\ AfterFit
    /\ s.fit.ok
    /\ Cardinality(Tops) = 1
    /\ \E k \in 1..NCand : s.swept[k].nan /\ (k - 1) \in s.cfg.raise
    /\ \E k \in 1..NCand : CandRaises(s.cfg, k - 1) /\ (k - 1) \notin s.cfg.raise

\* the statements single_search has yet to run, counted by block
Remaining(st) ==
    (NCand - st.i) + (CASE st.pc = "sweep" -> 3 [] st.pc = "plot" -> 2
                        [] st.pc = "print" -> 1 [] st.pc = "done" -> 0)

\* what single_search returns: (eta_fit, eta_sig, mean frequency, mean time)
\* with the estimate of the fit block, NaN and NaN when that block failed,
\* whether or not plotting was asked for and failed
ReturnsFitResult ==
    s.pc = "done" =>
        /\ s.ret = <<s.fit.eta_fit, s.fit.eta_sig, s.cfg.meanf, s.cfg.meant>>
        /\ ~s.fit.ok => s.ret[1] = NotANumber /\ s.ret[2] = NotANumber
        /\ s.cfg.plot => s.out = <<"Plotting Error", "Chunk completed">>
        /\ ~s.cfg.plot => s.out = <<"Chunk completed">>

\* C5: single_search always ends by returning (eta_fit, eta_sig, mean
\* frequency, mean time): every state short of the return has a statement to
\* run and every statement run leaves fewer to run; when peak selection,
\* seeding or the fit fails both eta_fit and eta_sig are NaN; the plotting
\* failure is caught and the tuple is the one the fit block produced, with
\* or without plot.
C5_AlwaysReturns ==
    /\ []ReturnsFitResult
    /\ [](s.pc # "done" => Sweeping \/ Swept \/ s.pc = "plot" \/ s.pc = "print")
    /\ [][Remaining(s') < Remaining(s)]_vars

\* a return after a fit that succeeded and a plot that failed
C5_Witness ==
    /\ s.pc = "done"
    /\ s.cfg.plot
    /\ s.fit.ok
    /\ s.out[1] = "Plotting Error"
    /\ ~s.ret[1].nan

(***************************************************************************)
(* arc_edges and len_arc (206-220), in fixed-point arithmetic: a real r is *)
(* the integer r * Scale, rounded down.                                    *)
(***************************************************************************)
FxMul(p, q) == (p * q) \div Scale
FxDiv(p, q) == (p * Scale) \div q

\* floor of the square root, by bisection on lo..hi
RECURSIVE Bisect(_, _, _)
Bisect(v, lo, hi) ==
    IF lo >= hi THEN lo
    ELSE LET mid == (lo + hi + 1) \div 2
         IN IF mid <= v \div mid THEN Bisect(v, mid, hi) ELSE Bisect(v, lo, mid - 1)

FxSqrt(p) == Bisect(p * Scale, 0, p + Scale)

\* np.arcsinh(z), z >= 0: the integral of 1/sqrt(1+t^2) over 0..z
RECURSIVE ArcSinhSum(_, _)
ArcSinhSum(z, k) ==
    IF k = 0 THEN 0
    ELSE ArcSinhSum(z, k - 1)
         + FxDiv(z \div Quad,
                 FxSqrt(Scale + FxMul(((2 * k - 1) * z) \div (2 * Quad),
                                      ((2 * k - 1) * z) \div (2 * Quad))))

ArcSinh(z) == ArcSinhSum(z, Quad)

\* lines 206-208
len_arc(x, eta) ==
    LET a2 == 2 * eta
        ax == FxMul(a2, x)
    IN FxDiv(FxMul(ax, FxSqrt(FxMul(ax, ax) + Scale)) + ArcSinh(ax), 2 * a2)

\* line 219: np.concatenate((-x[::-1], x)) * dfd
Mirror(x, dfd) ==
    [k \in 1..(2 * Len(x)) |->
        IF k <= Len(x) THEN -x[Len(x) + 1 - k] * dfd ELSE x[k - Len(x)] * dfd]

ArcInputs ==
    [eta : {1, 2}, dfd : {1, 2}, dtau : {1, 4}, fd_max : {2, 4}, n : 1..MaxN]

ArcInit ==
    /\ m = MIdle
    /\ s = SIdle
    /\ \E in \in ArcInputs :
          a = [pc |-> "start", in |-> in, eta_ul |-> 0, dl |-> 0, x |-> <<>>, i |-> 0,
               edges |-> <<>>, raised |-> FALSE]

\* lines 211-216; x[0] = dl/2 raises IndexError on an empty x
ArcStart ==
    /\ a.pc = "start"
    /\ LET x_max == FxDiv(a.in.fd_max * Scale, a.in.dfd * Scale)
           eta_ul == (a.in.dfd * a.in.dfd * a.in.eta * Scale) \div a.in.dtau
           l_max == len_arc(x_max, eta_ul)
           half == a.in.n \div 2
           dl == (2 * l_max) \div (2 * half - 1)            \* l_max/(n//2 - .5)
       IN IF half = 0
          THEN a' = [a EXCEPT !.pc = "done", !.raised = TRUE]
          ELSE a' = [a EXCEPT !.pc = "loop", !.eta_ul = eta_ul, !.dl = dl,
                              !.x = [k \in 1..half |-> IF k = 1 THEN dl \div 2 ELSE 0]]
    /\ UNCHANGED <<m, s>>

\* lines 217-218: one pass of the loop (a.i is the code's i)
ArcStep ==
    /\ a.pc = "loop"
    /\ a.i < Len(a.x) - 1
    /\ LET xi == a.x[a.i + 1]
           t == FxMul(2 * a.eta_ul, xi)
       IN a' = [a EXCEPT !.x[a.i + 2] = xi + FxDiv(a.dl, FxSqrt(Scale + FxMul(t, t))),
                         !.i = a.i + 1]
    /\ UNCHANGED <<m, s>>

\* lines 219-220
ArcFinish ==
    /\ a.pc = "loop"
    /\ a.i >= Len(a.x) - 1
    /\ a' = [a EXCEPT !.pc = "done", !.edges = Mirror(a.x, a.in.dfd)]
    /\ UNCHANGED <<m, s>>

ArcNext == ArcStart \/ ArcStep \/ ArcFinish

SpecArc == ArcInit /\ [][ArcNext]_vars

(***************************************************************************)
(* Claims about arc_edges.                                                 *)
(***************************************************************************)
ArcReturned == a.pc = "done" /\ ~a.raised

Ascending(e) == \A k \in 1..(Len(e) - 1) : e[k] < e[k + 1]
Symmetric(e) == \A k \in 1..Len(e) : e[k] = -e[Len(e) + 1 - k]

\* C8: for every n >= 2, odd or even, arc_edges returns exactly n edges,
\* strictly ascending and symmetric about zero.
C8_ExactlyNEdges ==
    ArcReturned =>
        /\ Len(a.edges) = a.in.n
        /\ Ascending(a.edges)
        /\ Symmetric(a.edges)

\* C8 without the count: what is returned is ascending and symmetric
C8_AscendingSymmetric ==
    ArcReturned => Ascending(a.edges) /\ Symmetric(a.edges)

\* C8, the count the code gives: n edges for even n, n - 1 for odd n
C8_EvenCount ==
    ArcReturned => Len(a.edges) = 2 * (a.in.n \div 2)

====
